---- MODULE Spec2Model ----
(***************************************************************************)
(* RuneScape-Player-Count: the scraper's store (models.py), the scrape run *)
(* that fills it (runescapeplayercount.py main) and the time-bucketed      *)
(* queries over it (queries.py).                                           *)
(*                                                                         *)
(* Timestamps are datetimes at minute resolution, tuples                   *)
(* <<year, month, day, hour, minute>>.  Strings the code builds (bucket    *)
(* keys) are sequences of one-character strings, compared as SQLite        *)
(* compares TEXT: character by character, by code point.                   *)
(***************************************************************************)
EXTENDS Integers, Sequences, FiniteSets

VARIABLES
    truediv,              \* the installed SQLAlchemy renders Python's "/" on a
                          \* column expression as true division (2.x, SQLite:
                          \* "a / (b + 0.0)") or as SQL integer division (1.x)
    playercount,          \* table playercount, rows in id order
    playercountbyworld,   \* table playercountbyworld, rows in id order
    scraped,              \* per playercountbyworld row, the Activity cell as scraped
    run,                  \* the latest committed scrape run: <<>> or <<[timestamp, rows]>>
    nruns,                \* scrape runs so far
    last,                 \* the last query call on this store: name, arguments, result
    tsA, tsB, gran,       \* inputs of _time_bucket (two timestamps, a granularity)
    keyA, keyB            \* the bucket keys computed for tsA and tsB

vars == <<truediv, playercount, playercountbyworld, scraped, run, nruns, last,
          tsA, tsB, gran, keyA, keyB>>

None == <<>>              \* Python None: no datetime, no count (a count is <<n>>), no format
NULL == "NULL"            \* a NULL (pandas NaN / None) in a text column

Year(ts)   == ts[1]
Month(ts)  == ts[2]
Day(ts)    == ts[3]
Hour(ts)   == ts[4]
Minute(ts) == ts[5]

(***************************************************************************)
(* Bounds of the model.                                                    *)
(***************************************************************************)
MaxDay == 3               \* _time_bucket is tried on days StartDate .. StartDate + MaxDay
MaxScrapes == 2           \* scrape runs per behaviour

(***************************************************************************)
(* The calendar SQLite's strftime works in (proleptic Gregorian).          *)
(***************************************************************************)
IsLeap(y) == (y % 4 = 0 /\ y % 100 # 0) \/ y % 400 = 0

DaysInMonth(y, m) ==
    IF m = 2 THEN (IF IsLeap(y) THEN 29 ELSE 28)
    ELSE IF m \in {4, 6, 9, 11} THEN 30 ELSE 31

RECURSIVE DaysBeforeMonth(_, _)
DaysBeforeMonth(y, m) ==
    IF m = 1 THEN 0 ELSE DaysBeforeMonth(y, m - 1) + DaysInMonth(y, m - 1)

\* %j - 1: days since January 1 of the same year
DayOfYear(ts) == DaysBeforeMonth(Year(ts), Month(ts)) + Day(ts) - 1

\* days since 1970-01-01
DaysFromCivil(y, m, d) ==
    LET yy  == IF m <= 2 THEN y - 1 ELSE y
        era == yy \div 400
        yoe == yy - era * 400
        mp  == IF m > 2 THEN m - 3 ELSE m + 9
        doy == (153 * mp + 2) \div 5 + d - 1
        doe == yoe * 365 + yoe \div 4 - yoe \div 100 + doy
    IN  era * 146097 + doe - 719468

\* 0 = Monday .. 6 = Sunday (1970-01-01 was a Thursday)
Weekday(ts) == (DaysFromCivil(Year(ts), Month(ts), Day(ts)) + 3) % 7

\* %W: week of the year, weeks start on Monday, days before the first Monday are week 0
WeekOfYear(ts) == (DayOfYear(ts) + 7 - Weekday(ts)) \div 7

\* minutes since 1970-01-01 00:00: the chronological order of timestamps
Minutes(ts) ==
    (DaysFromCivil(Year(ts), Month(ts), Day(ts)) * 24 + Hour(ts)) * 60 + Minute(ts)

\* SQLite compares the stored 'YYYY-MM-DD HH:MM:SS.ffffff' texts, which is this order
TsLeq(a, b) == Minutes(a) <= Minutes(b)

(***************************************************************************)
(* Text: characters, their order, number formatting.                       *)
(***************************************************************************)
Ord(c) ==
    CASE c = " " -> 32 [] c = "-" -> 45
      [] c = "0" -> 48 [] c = "1" -> 49 [] c = "2" -> 50 [] c = "3" -> 51
      [] c = "4" -> 52 [] c = "5" -> 53 [] c = "6" -> 54 [] c = "7" -> 55
      [] c = "8" -> 56 [] c = "9" -> 57 [] c = ":" -> 58

\* a <= b as SQLite orders TEXT (memcmp, the shorter a prefix first)
RECURSIVE LexLeq(_, _)
LexLeq(a, b) ==
    IF a = <<>> THEN TRUE
    ELSE IF b = <<>> THEN FALSE
    ELSE IF Head(a) # Head(b) THEN Ord(Head(a)) < Ord(Head(b))
    ELSE LexLeq(Tail(a), Tail(b))

DigitChar(d) == SubSeq(<<"0", "1", "2", "3", "4", "5", "6", "7", "8", "9">>, d + 1, d + 1)

\* "%d" of a natural number
RECURSIVE Decimal(_)
Decimal(n) == IF n < 10 THEN DigitChar(n) ELSE Decimal(n \div 10) \o DigitChar(n % 10)

\* "%0<w>d": zero-padded on the left to at least w characters
RECURSIVE ZeroPad(_, _)
ZeroPad(s, w) == IF Len(s) >= w THEN s ELSE ZeroPad(<<"0">> \o s, w)

\* one strftime conversion, or a literal character copied through
StrftimeField(tok, ts) ==
    CASE tok = "%Y" -> ZeroPad(Decimal(Year(ts)), 4)
      [] tok = "%m" -> ZeroPad(Decimal(Month(ts)), 2)
      [] tok = "%d" -> ZeroPad(Decimal(Day(ts)), 2)
      [] tok = "%H" -> ZeroPad(Decimal(Hour(ts)), 2)
      [] tok = "%M" -> ZeroPad(Decimal(Minute(ts)), 2)
      [] tok = "%W" -> ZeroPad(Decimal(WeekOfYear(ts)), 2)
      [] OTHER -> <<tok>>

\* strftime(fmt, ts), fmt a sequence of conversions and literal characters
RECURSIVE strftime(_, _)
strftime(fmt, ts) ==
    IF fmt = <<>> THEN <<>>
    ELSE StrftimeField(Head(fmt), ts) \o strftime(Tail(fmt), ts)

\* (mutant) printf("%d:00", n): the minute not padded
PrintfD(n) == Decimal(n) \o <<":", "0", "0">>

\* printf("%02d:00", n)
printf_02d_00(n) == ZeroPad(Decimal(n), 2) \o <<":", "0", "0">>

\* CAST(text AS INTEGER) of a text of digits
RECURSIVE CastInteger(_)
CastInteger(s) ==
    IF s = <<>> THEN 0
    ELSE CastInteger(SubSeq(s, 1, Len(s) - 1)) * 10 + (Ord(s[Len(s)]) - Ord("0"))

(***************************************************************************)
(* queries.py: Granularity, Aggregation, _BUCKET_FORMAT, _time_bucket.     *)
(***************************************************************************)
Granularity == {"5min", "15min", "30min", "hourly", "daily", "weekly", "monthly"}

Aggregation == {"average", "peak"}

_BUCKET_FORMAT(g) ==
    CASE g = "5min"    -> None
      [] g = "15min"   -> None
      [] g = "30min"   -> None
      [] g = "hourly"  -> <<"%Y", "-", "%m", "-", "%d", " ", "%H", ":", "0", "0", ":", "0", "0">>
      [] g = "daily"   -> <<"%Y", "-", "%m", "-", "%d">>
      [] g = "weekly"  -> <<"%Y", "-", "%W">>
      [] g = "monthly" -> <<"%Y", "-", "%m">>

SubHourMinutes(g) ==
    CASE g = "5min" -> 5 [] g = "15min" -> 15 [] g = "30min" -> 30

\* (CAST(strftime('%M', ts) AS INTEGER) / minutes) * minutes, then printf's %d.
\* Integer division truncates.  Under true division the quotient is a REAL and
\* the product is the minute again (m / n * n = m in IEEE doubles for every
\* m in 0..59 and n in 5, 15, 30), which %d prints as that integer.
TruncatedMinute(m, minutes, td) ==
    IF td THEN m ELSE (m \div minutes) * minutes

_time_bucket(ts, g, td) ==
    LET fmt == _BUCKET_FORMAT(g) IN
    IF fmt # None
    THEN strftime(fmt, ts)
    ELSE strftime(<<"%Y", "-", "%m", "-", "%d", " ", "%H", ":">>, ts)
         \o printf_02d_00(TruncatedMinute(CastInteger(strftime(<<"%M">>, ts)),
                                          SubHourMinutes(g), td))

(***************************************************************************)
(* models.py: the rows of the two tables.  A row's id is its position.     *)
(***************************************************************************)
PlayerCount(player_count, game, timestamp) ==
    [player_count |-> player_count, game |-> game, timestamp |-> timestamp]

PlayerCountByWorld(world, players, location, type, activity, timestamp) ==
    [world |-> world, players |-> players, location |-> location,
     type |-> type, activity |-> activity, timestamp |-> timestamp]

(***************************************************************************)
(* Helpers on sequences.                                                   *)
(***************************************************************************)
Range(s) == {s[i] : i \in DOMAIN s}

RECURSIVE SumSeq(_)
SumSeq(s) == IF s = <<>> THEN 0 ELSE Head(s) + SumSeq(Tail(s))

RECURSIVE MaxSeq(_)
MaxSeq(s) ==
    IF Len(s) = 1 THEN Head(s)
    ELSE LET m == MaxSeq(Tail(s)) IN IF Head(s) >= m THEN Head(s) ELSE m

\* the texts of S in ascending order (ORDER BY on a TEXT expression)
RECURSIVE SortKeys(_)
SortKeys(S) ==
    IF S = {} THEN <<>>
    ELSE LET m == CHOOSE k \in S : \A j \in S : LexLeq(k, j)
         IN  <<m>> \o SortKeys(S \ {m})

\* how SQLite orders the labels that occur: NULL first, then TEXT by code point
LabelOrder ==
    <<NULL, "", "-", "Free", "Members", "No Activity", "PvP", "UK", "US">>

(***************************************************************************)
(* queries.py: the aggregate a query applies to the values of one group.   *)
(* SQL avg() yields a REAL, kept here as the exact fraction num/den;       *)
(* max() and sum() yield an integer, the fraction with den = 1.            *)
(***************************************************************************)
Avg(values) == [num |-> SumSeq(values), den |-> Len(values)]
Max(values) == [num |-> MaxSeq(values), den |-> 1]
Sum(values) == [num |-> SumSeq(values), den |-> 1]

_agg_func(agg, values) == IF agg = "average" THEN Avg(values) ELSE Max(values)

\* (mutant) the end bound taken exclusive
InRangeEndExclusive(r, start, end) ==
    TsLeq(start, r.timestamp) /\ Minutes(r.timestamp) < Minutes(end)

\* (mutant) the two bounds joined by OR
InRangeEither(r, start, end) == TsLeq(start, r.timestamp) \/ TsLeq(r.timestamp, end)

\* WHERE timestamp >= start AND timestamp <= end
InRange(r, start, end) == TsLeq(start, r.timestamp) /\ TsLeq(r.timestamp, end)

\* the bucket key of every row, by row position
RowBuckets(rows, g, td) == [i \in 1..Len(rows) |-> _time_bucket(rows[i].timestamp, g, td)]

\* the values (values[i] is that of rows[i]) of the rows whose bucket is key, in row order
BucketValues(b, values, key) ==
    LET hit == SelectSeq([i \in 1..Len(values) |-> i], LAMBDA i : b[i] = key)
    IN  [k \in 1..Len(hit) |-> values[hit[k]]]

\* SELECT bucket, agg(value) ... GROUP BY bucket ORDER BY bucket
BucketSeries(rows, values, g, agg, td) ==
    LET b    == RowBuckets(rows, g, td)
        keys == SortKeys(Range(b))
    IN  [i \in 1..Len(keys) |->
            [time_bucket |-> keys[i],
             player_count |-> _agg_func(agg, BucketValues(b, values, keys[i]))]]

player_count_timeseries(table, game, start, end, g, agg, td) ==
    LET rows == SelectSeq(table, LAMBDA r : r.game = game /\ InRange(r, start, end))
    IN  BucketSeries(rows, [i \in 1..Len(rows) |-> rows[i].player_count], g, agg, td)

combined_total_timeseries(table, start, end, g, agg, td) ==
    LET rows == SelectSeq(table, LAMBDA r : InRange(r, start, end))
    IN  BucketSeries(rows, [i \in 1..Len(rows) |-> rows[i].player_count], g, agg, td)

player_count_by_world(table, world, start, end, g, agg, td) ==
    LET rows == SelectSeq(table, LAMBDA r : r.world = world /\ InRange(r, start, end))
    IN  BucketSeries(rows, [i \in 1..Len(rows) |-> rows[i].players], g, agg, td)

\* the (bucket, label) groups that occur (b[i], labels[i] are those of row i),
\* ordered by bucket, a bucket's groups by label
Groups(b, labels, keys) ==
    LET n   == Len(LabelOrder)
        all == [p \in 1..(Len(keys) * n) |->
                   [time_bucket |-> keys[((p - 1) \div n) + 1],
                    label |-> LabelOrder[((p - 1) % n) + 1]]]
    IN  SelectSeq(all, LAMBDA e : \E i \in DOMAIN labels :
                           b[i] = e.time_bucket /\ labels[i] = e.label)

\* how a group's players are combined: "sum", or an Aggregation
Combine(how, values) == IF how = "sum" THEN Sum(values) ELSE _agg_func(how, values)

\* SELECT bucket, label, sum(players) ... GROUP BY bucket, label ORDER BY bucket
GroupByLabel(rows, labels, g, td, how) ==
    LET b    == RowBuckets(rows, g, td)
        keys == SortKeys(Range(b))
        grp  == Groups(b, labels, keys)
    IN  [i \in 1..Len(grp) |->
            LET hit == SelectSeq([k \in 1..Len(rows) |-> k], LAMBDA k :
                           b[k] = grp[i].time_bucket /\ labels[k] = grp[i].label)
            IN  [time_bucket |-> grp[i].time_bucket,
                 label |-> grp[i].label,
                 player_count |-> Combine(how, [j \in 1..Len(hit) |-> rows[hit[j]].players])]]

\* (mutant) the aggregation mode applied to the worlds of a group
player_count_by_type_agg(table, start, end, g, agg, td) ==
    LET rows == SelectSeq(table, LAMBDA r : InRange(r, start, end))
    IN  GroupByLabel(rows, [i \in 1..Len(rows) |-> rows[i].type], g, td, agg)

\* func.sum(players) per (bucket, type); agg is accepted and not used
player_count_by_type(table, start, end, g, agg, td) ==
    LET rows == SelectSeq(table, LAMBDA r : InRange(r, start, end))
    IN  GroupByLabel(rows, [i \in 1..Len(rows) |-> rows[i].type], g, td, "sum")

\* func.sum(players) per (bucket, location); agg is accepted and not used
player_count_by_region(table, start, end, g, agg, td) ==
    LET rows == SelectSeq(table, LAMBDA r : InRange(r, start, end))
    IN  GroupByLabel(rows, [i \in 1..Len(rows) |-> rows[i].location], g, td, "sum")

\* ORDER BY n DESC (n[i] is the number of rows[i]); rows of equal n keep their order
SortDesc(rows, n) ==
    LET before(i) == Cardinality({j \in DOMAIN rows : n[j] > n[i] \/ (n[j] = n[i] /\ j < i)})
    IN  [p \in 1..Len(rows) |-> rows[CHOOSE i \in DOMAIN rows : before(i) = p - 1]]

\* ORDER BY players DESC
ByPlayersDesc(rows) == SortDesc(rows, [i \in 1..Len(rows) |-> rows[i].players])

\* (mutant) the timestamp of the row inserted last
LastInsertedTimestamp(table) ==
    IF table = <<>> THEN None ELSE table[Len(table)].timestamp

\* SELECT max(timestamp): NULL on an empty table
MaxTimestamp(table) ==
    IF table = <<>> THEN None
    ELSE (CHOOSE r \in Range(table) : \A q \in Range(table) : TsLeq(q.timestamp, r.timestamp)).timestamp

\* (mutant) the rows at or before the timestamp
world_snapshot_at_or_before(table, timestamp) ==
    LET at == IF timestamp = None THEN MaxTimestamp(table) ELSE timestamp IN
    IF at = None THEN <<>>
    ELSE ByPlayersDesc(SelectSeq(table, LAMBDA r : TsLeq(r.timestamp, at)))

world_snapshot(table, timestamp) ==
    LET at == IF timestamp = None THEN MaxTimestamp(table) ELSE timestamp IN
    IF at = None THEN <<>>
    ELSE ByPlayersDesc(SelectSeq(table, LAMBDA r : r.timestamp = at))

player_count_by_activity(table, start, end) ==
    LET rows   == SelectSeq(table, LAMBDA r : InRange(r, start, end))
        labels == SelectSeq(LabelOrder, LAMBDA l : \E r \in Range(rows) : r.activity = l)
        grp    == [i \in 1..Len(labels) |->
                     LET hit == SelectSeq(rows, LAMBDA r : r.activity = labels[i])
                     IN  [activity |-> labels[i],
                          total_players |-> SumSeq([j \in 1..Len(hit) |-> hit[j].players]),
                          snapshot_count |-> Len(hit)]]
    IN  SortDesc(grp, [i \in 1..Len(grp) |-> grp[i].total_players])

(***************************************************************************)
(* runescapeplayercount.py: players_by_world and main.                     *)
(* A page is the scraped world table, rows [World, Players, Location,      *)
(* Type, Activity] with World and Players already parsed.                  *)
(***************************************************************************)
\* (mutant) only the dash replaced
NormaliseActivityDashOnly(a) == IF a = "-" THEN "No Activity" ELSE a

\* df["Activity"].replace(["-", "", None], "No Activity").fillna("No Activity")
NormaliseActivity(a) == IF a \in {"-", "", NULL} THEN "No Activity" ELSE a

players_by_world(page) ==
    SortDesc([i \in 1..Len(page) |->
                 [page[i] EXCEPT !.Activity = NormaliseActivity(page[i].Activity)]],
             [i \in 1..Len(page) |-> page[i].Players])

\* the raw Activity cells, in the order players_by_world returns the rows
RawActivities(page) ==
    LET df == SortDesc(page, [i \in 1..Len(page) |-> page[i].Players])
    IN  [i \in 1..Len(df) |-> df[i].Activity]

\* mutant of CountRows: without an OSRS count the combined count is stored as RS3
CountRowsCombinedAsRS3(combined_count, osrs_count, timestamp) ==
    (IF combined_count # None
     THEN <<PlayerCount(IF osrs_count # None THEN combined_count[1] - osrs_count[1]
                                             ELSE combined_count[1],
                        "RS3", timestamp)>>
     ELSE <<>>)
    \o
    (IF osrs_count # None
     THEN <<PlayerCount(osrs_count[1], "OSRS", timestamp)>> ELSE <<>>)

\* the PlayerCount rows main adds
CountRows(combined_count, osrs_count, timestamp) ==
    LET rs3_count == IF combined_count # None /\ osrs_count # None
                     THEN <<combined_count[1] - osrs_count[1]>>
                     ELSE None
    IN  (IF rs3_count # None
         THEN <<PlayerCount(rs3_count[1], "RS3", timestamp)>> ELSE <<>>)
        \o
        (IF osrs_count # None
         THEN <<PlayerCount(osrs_count[1], "OSRS", timestamp)>> ELSE <<>>)

\* the PlayerCountByWorld rows main adds
WorldRows(world_df, timestamp) ==
    [i \in 1..Len(world_df) |->
        PlayerCountByWorld(world_df[i].World, world_df[i].Players, world_df[i].Location,
                           world_df[i].Type, world_df[i].Activity, timestamp)]

NoCall == [op |-> "none", args |-> <<>>, result |-> <<>>]

\* one run of main: the three fetches' outcomes and datetime.now() are its inputs
main(combined_count, osrs_count, page, timestamp) ==
    /\ nruns < MaxScrapes
    /\ nruns' = nruns + 1
    /\ playercount' = playercount \o CountRows(combined_count, osrs_count, timestamp)
    /\ playercountbyworld' =
           playercountbyworld \o WorldRows(players_by_world(page), timestamp)
    /\ scraped' = scraped \o RawActivities(page)
    /\ run' = <<[timestamp |-> timestamp,
                 rows |-> WorldRows(players_by_world(page), timestamp),
                 combined_count |-> combined_count,
                 osrs_count |-> osrs_count]>>
    /\ last' = NoCall
    /\ UNCHANGED <<truediv, tsA, tsB, gran, keyA, keyB>>

(***************************************************************************)
(* The inputs tried.                                                       *)
(***************************************************************************)
T0 == <<2024, 12, 31, 23, 52>>
T1 == <<2024, 12, 31, 23, 58>>
T2 == <<2025, 1, 1, 0, 3>>

Stamps == {T0, T1, T2}

Row(w, n, l, t, a) == [World |-> w, Players |-> n, Location |-> l, Type |-> t, Activity |-> a]

Page1 == <<Row("301", 10, "US", "Free", "-"), Row("302", 20, "UK", "Members", "PvP")>>
Page2 == <<Row("301", 30, "US", "Free", ""), Row("303", 20, "US", "Members", NULL)>>
Page3 == <<>>

\* outcomes of get_combined_player_count, get_osrs_player_count, players_by_world
Fetches ==
    { [combined |-> <<50>>, osrs |-> <<30>>, page |-> Page1],
      [combined |-> <<20>>, osrs |-> <<30>>, page |-> Page2],
      [combined |-> None,   osrs |-> <<30>>, page |-> Page3],
      [combined |-> <<50>>, osrs |-> None,   page |-> Page2] }

Games == {"RS3", "OSRS"}
Worlds == {"301", "302"}
QueryGranularities == {"5min", "hourly"}
\* <<start, end>>: from the first to the last instant, one instant, start after end
QueryRanges == {<<T0, T2>>, <<T1, T1>>, <<T2, T0>>}

(***************************************************************************)
(* The store: scrape runs and the queries of queries.py.                   *)
(***************************************************************************)
Init ==
    /\ truediv \in BOOLEAN
    /\ playercount = <<>>
    /\ playercountbyworld = <<>>
    /\ scraped = <<>>
    /\ run = <<>>
    /\ nruns = 0
    /\ last = NoCall
    /\ tsA = T0 /\ tsB = T0 /\ gran = "hourly"
    /\ keyA = None /\ keyB = None

Scrape ==
    \E f \in Fetches, timestamp \in Stamps :
        main(f.combined, f.osrs, f.page, timestamp)

\* a query is called when no other is being served (one request at a time)
Answer(op, args, result) ==
    /\ last = NoCall
    /\ last' = [op |-> op, args |-> args, result |-> result]
    /\ UNCHANGED <<truediv, playercount, playercountbyworld, scraped, run, nruns,
                   tsA, tsB, gran, keyA, keyB>>

QueryTimeseries ==
    \E game \in Games, r \in QueryRanges, g \in QueryGranularities, agg \in Aggregation :
        Answer("player_count_timeseries",
               [game |-> game, start |-> r[1], end |-> r[2], granularity |-> g, agg |-> agg],
               player_count_timeseries(playercount, game, r[1], r[2], g, agg, truediv))

QueryCombined ==
    \E r \in QueryRanges, g \in QueryGranularities, agg \in Aggregation :
        Answer("combined_total_timeseries",
               [start |-> r[1], end |-> r[2], granularity |-> g, agg |-> agg],
               combined_total_timeseries(playercount, r[1], r[2], g, agg, truediv))

QueryByType ==
    \E r \in QueryRanges, g \in QueryGranularities, agg \in Aggregation :
        Answer("player_count_by_type",
               [start |-> r[1], end |-> r[2], granularity |-> g, agg |-> agg],
               player_count_by_type(playercountbyworld, r[1], r[2], g, agg, truediv))

QueryByRegion ==
    \E r \in QueryRanges, g \in QueryGranularities, agg \in Aggregation :
        Answer("player_count_by_region",
               [start |-> r[1], end |-> r[2], granularity |-> g, agg |-> agg],
               player_count_by_region(playercountbyworld, r[1], r[2], g, agg, truediv))

QueryByWorld ==
    \E world \in Worlds, r \in QueryRanges, g \in QueryGranularities, agg \in Aggregation :
        Answer("player_count_by_world",
               [world |-> world, start |-> r[1], end |-> r[2], granularity |-> g, agg |-> agg],
               player_count_by_world(playercountbyworld, world, r[1], r[2], g, agg, truediv))

QuerySnapshot ==
    \E timestamp \in Stamps \cup {None} :
        Answer("world_snapshot",
               [timestamp |-> timestamp],
               world_snapshot(playercountbyworld, timestamp))

QueryByActivity ==
    \E r \in QueryRanges :
        Answer("player_count_by_activity",
               [start |-> r[1], end |-> r[2]],
               player_count_by_activity(playercountbyworld, r[1], r[2]))

\* the caller takes the result
Return ==
    /\ last # NoCall
    /\ last' = NoCall
    /\ UNCHANGED <<truediv, playercount, playercountbyworld, scraped, run, nruns,
                   tsA, tsB, gran, keyA, keyB>>

Next ==
    \/ Scrape
    \/ Return
    \/ QueryTimeseries
    \/ QueryCombined
    \/ QueryByType
    \/ QueryByRegion
    \/ QueryByWorld
    \/ QuerySnapshot
    \/ QueryByActivity

Spec == Init /\ [][Next]_vars

(***************************************************************************)
(* _time_bucket on its own: two timestamps and a granularity.              *)
(***************************************************************************)
StartDate == <<2024, 12, 29>>

NextDate(d) ==
    IF d[3] < DaysInMonth(d[1], d[2]) THEN <<d[1], d[2], d[3] + 1>>
    ELSE IF d[2] < 12 THEN <<d[1], d[2] + 1, 1>>
    ELSE <<d[1] + 1, 1, 1>>

RECURSIVE DateAfter(_, _)
DateAfter(d, n) == IF n = 0 THEN d ELSE DateAfter(NextDate(d), n - 1)

ProbeHours == {0, 23}
ProbeMinutes == {0, 4, 5, 14, 15, 29, 30, 37, 59}

BucketStamps ==
    {<<DateAfter(StartDate, i)[1], DateAfter(StartDate, i)[2], DateAfter(StartDate, i)[3], h, m>> :
        i \in 0..MaxDay, h \in ProbeHours, m \in ProbeMinutes}

BucketInit ==
    /\ truediv \in BOOLEAN
    /\ playercount = <<>>
    /\ playercountbyworld = <<>>
    /\ scraped = <<>>
    /\ run = <<>>
    /\ nruns = 0
    /\ last = NoCall
    /\ tsA \in BucketStamps /\ tsB \in BucketStamps /\ gran \in Granularity
    /\ keyA = None /\ keyB = None

TimeBucket ==
    /\ keyA = None
    /\ keyA' = _time_bucket(tsA, gran, truediv)
    /\ keyB' = _time_bucket(tsB, gran, truediv)
    /\ UNCHANGED <<truediv, playercount, playercountbyworld, scraped, run, nruns, last,
                   tsA, tsB, gran>>

BucketNext == TimeBucket

BucketSpec == BucketInit /\ [][BucketNext]_vars

(***************************************************************************)
(* Properties of _time_bucket, checked under BucketSpec.                   *)
(***************************************************************************)
SubHour == {"5min", "15min", "30min"}

SameHour(a, b) ==
    Year(a) = Year(b) /\ Month(a) = Month(b) /\ Day(a) = Day(b) /\ Hour(a) = Hour(b)

\* a and b lie in the same bucket window of granularity g
SameWindow(a, b, g) ==
    CASE g \in SubHour ->
             SameHour(a, b) /\ Minute(a) \div SubHourMinutes(g) = Minute(b) \div SubHourMinutes(g)
      [] g = "hourly"  -> SameHour(a, b)
      [] g = "daily"   -> Year(a) = Year(b) /\ Month(a) = Month(b) /\ Day(a) = Day(b)
      [] g = "weekly"  -> Year(a) = Year(b) /\ WeekOfYear(a) = WeekOfYear(b)
      [] g = "monthly" -> Year(a) = Year(b) /\ Month(a) = Month(b)

\* C1: for every granularity and every two timestamps, the two bucket keys are
\* equal exactly when the timestamps lie in the same bucket window: no two
\* windows share a key and no window is split over two keys.
C1_KeyEqualIffSameWindow ==
    keyA # None => ((keyA = keyB) <=> SameWindow(tsA, tsB, gran))

\* C1 where "/" is integer division: the claim holds of that build.
C1_IntegerDivisionBuild ==
    (keyA # None /\ ~truediv) => ((keyA = keyB) <=> SameWindow(tsA, tsB, gran))

SubHourKey(ts, mm) ==
    ZeroPad(Decimal(Year(ts)), 4) \o <<"-">> \o ZeroPad(Decimal(Month(ts)), 2) \o <<"-">>
    \o ZeroPad(Decimal(Day(ts)), 2) \o <<" ">> \o ZeroPad(Decimal(Hour(ts)), 2) \o <<":">>
    \o ZeroPad(Decimal(mm), 2) \o <<":", "0", "0">>

\* C3: under a sub-hour granularity of N minutes the key of a timestamp with
\* minute m is 'YYYY-MM-DD HH:MM:00' with its date and hour and MM = floor(m / N) * N.
C3_SubHourKeyTruncatesMinute ==
    (keyA # None /\ gran \in SubHour) =>
        keyA = SubHourKey(tsA, (Minute(tsA) \div SubHourMinutes(gran)) * SubHourMinutes(gran))

\* C3 where "/" is integer division: the claim holds of that build.
C3_IntegerDivisionBuild ==
    (keyA # None /\ gran \in SubHour /\ ~truediv) =>
        keyA = SubHourKey(tsA, (Minute(tsA) \div SubHourMinutes(gran)) * SubHourMinutes(gran))

(***************************************************************************)
(* Properties of the queries, checked under Spec.  last holds the call and *)
(* its result; the tables are those the call read.                         *)
(***************************************************************************)
\* how often x occurs in the sequence a
Count(a, x) == Cardinality({i \in DOMAIN a : a[i] = x})

\* a and b hold the same elements the same number of times
SameMultiset(a, b) == \A x \in Range(a) \cup Range(b) : Count(a, x) = Count(b, x)

\* the sum of n[i] over the positions i in I
RECURSIVE SumAt(_, _)
SumAt(n, I) ==
    IF I = {} THEN 0
    ELSE LET i == CHOOSE k \in I : TRUE IN n[i] + SumAt(n, I \ {i})

Within(ts, start, end) == Minutes(start) <= Minutes(ts) /\ Minutes(ts) <= Minutes(end)

Ascending(res) ==
    \A p, q \in DOMAIN res :
        p < q => /\ res[p].time_bucket # res[q].time_bucket
                 /\ LexLeq(res[p].time_bucket, res[q].time_bucket)

\* res is the series of the values n[i], i in I, bucketed by key[i]: one entry
\* per bucket key that occurs, ascending, valued by the maximum or the mean
IsSeriesOf(res, I, key, n, agg) ==
    /\ \A i \in I : \E p \in DOMAIN res : res[p].time_bucket = key[i]
    /\ Ascending(res)
    /\ \A p \in DOMAIN res :
          LET B == {i \in I : key[i] = res[p].time_bucket}
              v == res[p].player_count
          IN  /\ B # {}
              /\ agg = "peak" =>
                    /\ v.den = 1
                    /\ \A i \in B : n[i] <= v.num
                    /\ \E i \in B : n[i] = v.num
              /\ agg = "average" =>
                    /\ v.den > 0
                    /\ v.num * Cardinality(B) = SumAt(n, B) * v.den

WorldKeys == [i \in DOMAIN playercountbyworld |->
                 _time_bucket(playercountbyworld[i].timestamp, last.args.granularity, truediv)]
WorldPlayers == [i \in DOMAIN playercountbyworld |-> playercountbyworld[i].players]

CountKeys == [i \in DOMAIN playercount |->
                 _time_bucket(playercount[i].timestamp, last.args.granularity, truediv)]
CountPlayers == [i \in DOMAIN playercount |-> playercount[i].player_count]

\* C4: player_count_by_world (and player_count_timeseries for a game) returns
\* exactly one entry per bucket key that has a row of that world (game) with
\* start <= timestamp <= end, in ascending key order, valued by the maximum of
\* those rows under PEAK and by their mean under AVERAGE; no other row contributes.
C4_SeriesPerBucketPeakOrMean ==
    /\ last.op = "player_count_by_world" =>
          IsSeriesOf(last.result,
                     {i \in DOMAIN playercountbyworld :
                         /\ playercountbyworld[i].world = last.args.world
                         /\ Within(playercountbyworld[i].timestamp, last.args.start, last.args.end)},
                     WorldKeys, WorldPlayers, last.args.agg)
    /\ last.op = "player_count_timeseries" =>
          IsSeriesOf(last.result,
                     {i \in DOMAIN playercount :
                         /\ playercount[i].game = last.args.game
                         /\ Within(playercount[i].timestamp, last.args.start, last.args.end)},
                     CountKeys, CountPlayers, last.args.agg)

\* C4's case: one world has rows 10 and 30 in one hourly bucket, next to rows
\* of other worlds; the average returned is (10 + 30) / 2 = 20.
C4_Witness ==
    /\ last.op = "player_count_by_world"
    /\ last.args.world = "301" /\ last.args.agg = "average"
    /\ \E i \in DOMAIN playercountbyworld : playercountbyworld[i].world # "301"
    /\ Len(last.result) = 1
    /\ last.result[1].player_count = [num |-> 40, den |-> 2]

OtherAgg(agg) == IF agg = "average" THEN "peak" ELSE "average"

\* res holds one entry per (bucket, label) that occurs among the rows at I,
\* ordered by bucket, valued by the sum of the players of that group
IsSumByLabel(res, I, key, lab, n) ==
    /\ \A i \in I : \E p \in DOMAIN res :
          res[p].time_bucket = key[i] /\ res[p].label = lab[i]
    /\ \A p, q \in DOMAIN res :
          p < q => /\ <<res[p].time_bucket, res[p].label>> # <<res[q].time_bucket, res[q].label>>
                   /\ LexLeq(res[p].time_bucket, res[q].time_bucket)
    /\ \A p \in DOMAIN res :
          LET B == {i \in I : key[i] = res[p].time_bucket /\ lab[i] = res[p].label}
          IN  B # {} /\ res[p].player_count = [num |-> SumAt(n, B), den |-> 1]

WorldsInRange ==
    {i \in DOMAIN playercountbyworld :
        Within(playercountbyworld[i].timestamp, last.args.start, last.args.end)}

NonIncreasing(res) ==
    \A p, q \in DOMAIN res : p < q => res[p].players >= res[q].players

\* the rows of the table that carry its greatest timestamp
LatestRows(table) ==
    SelectSeq(table, LAMBDA r :
        \A q \in Range(table) : Minutes(q.timestamp) <= Minutes(r.timestamp))

\* C6: world_snapshot without a timestamp returns exactly the rows whose
\* timestamp is the greatest stored one, by players non-increasing, and the
\* empty list on a store without world rows.
C6_SnapshotOfLatestTimestamp ==
    (last.op = "world_snapshot" /\ last.args.timestamp = None) =>
        /\ playercountbyworld = <<>> => last.result = <<>>
        /\ SameMultiset(last.result, LatestRows(playercountbyworld))
        /\ NonIncreasing(last.result)

\* C6's case: rows of an older scrape are stored after those of the newest
\* timestamp, and the snapshot returns the two rows of the newest.
C6_Witness ==
    /\ last.op = "world_snapshot" /\ last.args.timestamp = None
    /\ Len(last.result) = 2
    /\ last.result[1].players > last.result[2].players
    /\ Len(playercountbyworld) > 2
    /\ playercountbyworld[Len(playercountbyworld)].timestamp # last.result[1].timestamp

\* the world rows stored before the latest run
RowsBeforeRun ==
    SubSeq(playercountbyworld, 1, Len(playercountbyworld) - Len(run[1].rows))

\* C7 as stated: after a run inserted N rows with timestamp TS,
\* world_snapshot(TS) returns exactly those N rows, from any store state.
C7_SnapshotIsExactlyTheRun ==
    (run # <<>> /\ last.op = "world_snapshot" /\ last.args.timestamp = run[1].timestamp) =>
        SameMultiset(last.result, run[1].rows)

\* C7 amended: world_snapshot(TS) returns the N inserted rows together with
\* the rows stored earlier with the same timestamp TS, and nothing else.
C7_SnapshotIsRunAndEarlierSameInstant ==
    (run # <<>> /\ last.op = "world_snapshot" /\ last.args.timestamp = run[1].timestamp) =>
        SameMultiset(last.result,
                     SelectSeq(RowsBeforeRun, LAMBDA r : r.timestamp = run[1].timestamp)
                     \o run[1].rows)

\* C7's case: a run adds two rows to a store that holds rows of another
\* instant, and the snapshot at the run's timestamp returns the two.
C7_Witness ==
    /\ run # <<>> /\ Len(run[1].rows) = 2
    /\ last.op = "world_snapshot" /\ last.args.timestamp = run[1].timestamp
    /\ RowsBeforeRun # <<>>
    /\ \A i \in DOMAIN RowsBeforeRun : RowsBeforeRun[i].timestamp # run[1].timestamp
    /\ Len(last.result) = 2

CountsInRange ==
    {i \in DOMAIN playercount :
        Within(playercount[i].timestamp, last.args.start, last.args.end)}

\* C8: a query whose filter no stored row satisfies returns the empty
\* sequence: every aggregation variant (empty store, empty range, start after
\* end) and world_snapshot at a timestamp that no row carries.
C8_NoDataGivesEmptySequence ==
    /\ last.op = "player_count_timeseries" =>
          ({i \in CountsInRange : playercount[i].game = last.args.game} = {}
              => last.result = <<>>)
    /\ last.op = "combined_total_timeseries" =>
          (CountsInRange = {} => last.result = <<>>)
    /\ last.op \in {"player_count_by_type", "player_count_by_region",
                    "player_count_by_activity"} =>
          (WorldsInRange = {} => last.result = <<>>)
    /\ last.op = "player_count_by_world" =>
          ({i \in WorldsInRange : playercountbyworld[i].world = last.args.world} = {}
              => last.result = <<>>)
    /\ last.op = "world_snapshot" =>
          IF last.args.timestamp = None
          THEN playercountbyworld = <<>> => last.result = <<>>
          ELSE (\A i \in DOMAIN playercountbyworld :
                    playercountbyworld[i].timestamp # last.args.timestamp)
               => last.result = <<>>

\* C8's case: a by-region call with start after end on a store that holds
\* world rows returns the empty sequence.
C8_Witness ==
    /\ last.op = "player_count_by_region"
    /\ Minutes(last.args.start) > Minutes(last.args.end)
    /\ playercountbyworld # <<>>
    /\ last.result = <<>>

Placeholders == {NULL, "-", ""}

\* C9: player_count_by_activity never returns a NULL or placeholder group:
\* every in-range row scraped without an activity is counted in the one
\* 'No Activity' group; a group's total_players is the sum of the players and
\* its snapshot_count the number of its rows.
C9_OneNoActivityGroup ==
    last.op = "player_count_by_activity" =>
        /\ \A p \in DOMAIN last.result : last.result[p].activity \notin Placeholders
        /\ \A p, q \in DOMAIN last.result :
              p # q => last.result[p].activity # last.result[q].activity
        /\ \A i \in WorldsInRange :
              /\ \E p \in DOMAIN last.result :
                    last.result[p].activity = playercountbyworld[i].activity
              /\ scraped[i] \in Placeholders => playercountbyworld[i].activity = "No Activity"
        /\ \A p \in DOMAIN last.result :
              LET B == {i \in WorldsInRange :
                           playercountbyworld[i].activity = last.result[p].activity}
              IN  /\ B # {}
                  /\ last.result[p].total_players = SumAt(WorldPlayers, B)
                  /\ last.result[p].snapshot_count = Cardinality(B)

\* C9's case: rows scraped with '-', with '' and with no Activity cell are in
\* range, and the result counts the three in its 'No Activity' group.
C9_Witness ==
    /\ last.op = "player_count_by_activity"
    /\ \A a \in Placeholders : \E i \in WorldsInRange : scraped[i] = a
    /\ \E p \in DOMAIN last.result :
          last.result[p].activity = "No Activity" /\ last.result[p].snapshot_count >= 3

\* C10: for a bucket that holds exactly one RS3 row and one OSRS row of one
\* scrape, combined_total_timeseries returns the RS3 count plus the OSRS count,
\* under AVERAGE and under PEAK.
C10_CombinedIsRS3PlusOSRS ==
    last.op = "combined_total_timeseries" =>
        \A p \in DOMAIN last.result :
            LET B == {i \in CountsInRange : CountKeys[i] = last.result[p].time_bucket}
                v == last.result[p].player_count
            IN  \A i, j \in B :
                    (/\ Cardinality(B) = 2
                     /\ playercount[i].game = "RS3" /\ playercount[j].game = "OSRS"
                     /\ playercount[i].timestamp = playercount[j].timestamp)
                    => v.num = (playercount[i].player_count + playercount[j].player_count) * v.den

(***************************************************************************)
(* The PlayerCount rows a scrape run stores.                               *)
(***************************************************************************)
\* C11: in every reachable store every PlayerCount row has player_count >= 0,
\* the RS3 row (combined count minus OSRS count) included, for any pair of
\* non-negative counts the two endpoints return.
C11_PlayerCountsNonNegative ==
    \A i \in DOMAIN playercount : playercount[i].player_count >= 0

\* the fetched counts themselves are never negative: both are parsed from digits
C11_FetchedCountsNonNegative ==
    run # <<>> =>
        /\ run[1].combined_count # None => run[1].combined_count[1] >= 0
        /\ run[1].osrs_count # None => run[1].osrs_count[1] >= 0

\* the PlayerCount rows the step appends, when playercount only grows
Appended == SubSeq(playercount', Len(playercount) + 1, Len(playercount'))

\* the step keeps every stored PlayerCount row as it was, in its place
KeepsStoredRows ==
    /\ Len(playercount') >= Len(playercount)
    /\ SubSeq(playercount', 1, Len(playercount)) = playercount
    /\ Len(playercountbyworld') >= Len(playercountbyworld)
    /\ SubSeq(playercountbyworld', 1, Len(playercountbyworld)) = playercountbyworld

\* how many of the appended rows are of the game
AppendedOf(game) == Cardinality({i \in DOMAIN Appended : Appended[i].game = game})

\* the appended PlayerCount rows and the run's world rows carry the run's timestamp
SharedTimestamp ==
    /\ \A i \in DOMAIN Appended : Appended[i].timestamp = run'[1].timestamp
    /\ \A i \in DOMAIN run'[1].rows : run'[1].rows[i].timestamp = run'[1].timestamp

\* C12 as stated: every scrape run appends exactly one RS3 row and exactly one
\* OSRS row with the timestamp of the run's world rows and leaves the stored
\* rows as they were, whether the two count fetches found a value or None.
C12_OneRowPerGamePerRun ==
    [][nruns' = nruns + 1 =>
          /\ KeepsStoredRows
          /\ SharedTimestamp
          /\ Len(Appended) = 2
          /\ AppendedOf("RS3") = 1
          /\ AppendedOf("OSRS") = 1]_vars

\* C12 amended: every scrape run appends one OSRS row exactly when the OSRS
\* count was found (holding that count) and one RS3 row exactly when both
\* counts were found, and no other PlayerCount row; the appended rows carry
\* the timestamp of the run's world rows, and the stored rows stay as they were.
C12_OneRowPerGameWithCount ==
    [][nruns' = nruns + 1 =>
          LET both == run'[1].combined_count # None /\ run'[1].osrs_count # None
              osrs == run'[1].osrs_count # None
          IN  /\ KeepsStoredRows
              /\ SharedTimestamp
              /\ AppendedOf("RS3") = (IF both THEN 1 ELSE 0)
              /\ AppendedOf("OSRS") = (IF osrs THEN 1 ELSE 0)
              /\ Len(Appended) = AppendedOf("RS3") + AppendedOf("OSRS")
              /\ \A i \in DOMAIN Appended :
                     Appended[i].game = "OSRS" =>
                         Appended[i].player_count = run'[1].osrs_count[1]]_vars

\* C12's case: after a run that stored an RS3 and an OSRS row, a run whose
\* OSRS fetch gave None commits two world rows and no PlayerCount row.
C12_Witness ==
    /\ nruns = 2 /\ run # <<>>
    /\ run[1].osrs_count = None /\ run[1].combined_count # None
    /\ Len(run[1].rows) = 2
    /\ Len(playercount) = 2
    /\ playercount[1].game = "RS3" /\ playercount[2].game = "OSRS"
    /\ playercount[1].timestamp = playercount[2].timestamp

====
